---- MODULE Spec2Model ----
(***************************************************************************)
(* ScrapeSmart: the multi-page crawler (scraper.py, WebScraper) and the    *)
(* conversational extraction engine (AI_model.py, Model) as state          *)
(* machines.                                                               *)
(*                                                                         *)
(* Text is a sequence of characters, so that concatenation, separators     *)
(* and strip() are computed and not assumed.  A URL is a sequence of       *)
(* tokens: `"cloudflare" in url` is the presence of the token, and         *)
(* url.startswith(("http://", "https://")) is a test of the first token.   *)
(***************************************************************************)
EXTENDS Integers, Sequences, FiniteSets, TLC

\* ------------------------------------------------------------------ bounds
MaxPages == 3      \* largest adv_options["max_urls"] tried
MaxHist == 2       \* an extraction call starts with at most this many turns
MaxChunks == 2     \* most chunks handed to a direct call of the engine
ChunkLen == 3      \* max_length of dom_content_length: 6000 scaled to the texts here
MaxText == 5       \* longest text handed to a direct call of dom_content_length
MaxLength == 3     \* largest max_length handed to such a call
MaxLines == 4      \* most lines of a text handed to Result_to_dataframe

\* ------------------------------------------------------------- the inputs
\* An optional value: a key that st.session_state may lack, an attribute not
\* yet set, a call that has not returned.
Absent == <<>>
Some(v) == <<v>>
IsSet(o) == o # <<>>
Val(o) == o[1]

None == "None"     \* Python's None

UX == <<"http://", "x">>
UY == <<"https://", "y">>
UZ == <<"http://", "z">>
UW == <<"https://", "w">>
UCF == <<"https://", "cloudflare">>
URel == <<"/go?to=", "http">>
URelCF == <<"/go?to=", "http", "cloudflare">>

\* Every link scrape() returns contains "http" (scraper.py:70); it need not
\* start with it.
URLS == {UX, UY, UZ, UW, UCF, URel, URelCF}

\* cleaned texts of a page: stripped non-empty lines joined by "\n"; the empty
\* text is what a page without <body>, or with an empty one, gives.
PageTexts == {<<>>, <<"a">>, <<"b">>}

\* ------------------------------------------------------------- pure helpers
Range(s) == {s[i] : i \in 1..Len(s)}

\* `token in url`
HasToken(url, t) == \E i \in 1..Len(url) : url[i] = t

\* url.startswith(("http://", "https://"))
StartsWithScheme(url) == Len(url) > 0 /\ url[1] \in {"http://", "https://"}

\* sep.join(texts)
RECURSIVE Join(_, _)
Join(sep, texts) ==
    IF texts = <<>> THEN <<>>
    ELSE IF Len(texts) = 1 THEN texts[1]
    ELSE texts[1] \o sep \o Join(sep, Tail(texts))

\* text.strip()
IsSpace(c) == c \in {" ", "\n"}

RECURSIVE LStrip(_)
LStrip(t) == IF t # <<>> /\ IsSpace(Head(t)) THEN LStrip(Tail(t)) ELSE t

RECURSIVE RStrip(_)
RStrip(t) ==
    IF t # <<>> /\ IsSpace(t[Len(t)])
       THEN RStrip(SubSeq(t, 1, Len(t) - 1)) ELSE t

Strip(t) == RStrip(LStrip(t))

\* every ordering list(links) can have of a set
Orderings(S) ==
    {q \in UNION {[1..n -> S] : n \in {Cardinality(S)}} :
        \A i, j \in 1..Len(q) : i # j => q[i] # q[j]}

\* The link sets a page may have: none, new pages, links back to the start,
\* a link already queued, a relative link, a link to a challenge page.
LinkSets == {{}, {UY, UZ}, {UX, UW}, {UX}, {UZ, URel}, {URelCF}, {UY, UCF}}

\* What an earlier crawl of the session may have left behind: the text and
\* the links of one page that is none of PageTexts.
OldText == <<"o">>
OldLinks == {UW}

\* ------------------------------------------------------------------- state
VARIABLES
    pc,               \* Multi_scrape: "idle", "run", then at its exit "aborted"
                      \* (line 152), "done" or "raised" (line 219), then "returned"
    adv_options,      \* [max_urls, urls_scrape] of the running crawl
    all_cleaned_text, \* Multi_scrape local
    visited_urls,     \* Multi_scrape local
    urls_to_scrape,   \* Multi_scrape local (the Frontier)
    scraped_count,    \* Multi_scrape local
    retval,           \* what Multi_scrape returned
    dom_content,      \* st.session_state.dom_content
    urls,             \* st.session_state.urls
    reports,         \* st.warning / st.error / st.success calls of the crawl
    fetchLog,         \* the calls of self.scrape in this crawl, with what each returned
    chat_history,     \* st.session_state["chat_history"]: the caller's history list
    parsed_result,    \* st.session_state.parsed_result
    req,              \* the last call of the engine: method and arguments
    pre,              \* the history list before that call
    result,           \* what that call did
    fn_call,          \* a call of a pure method: its name and arguments
    fn_value          \* what that call returned, once it has

crawlVars == <<pc, adv_options, all_cleaned_text, visited_urls, urls_to_scrape,
               scraped_count, retval, dom_content, urls, reports,
               fetchLog>>

engineVars == <<chat_history, parsed_result, req, pre, result>>

pureVars == <<fn_call, fn_value>>

vars == <<crawlVars, engineVars, pureVars>>

\* ------------------------------------------------------------ the crawler
\* while urls_to_scrape and scraped_count < adv_options["max_urls"]
LoopCondOffByOne ==
    urls_to_scrape # <<>> /\ scraped_count <= adv_options.max_urls

LoopCond ==
    urls_to_scrape # <<>> /\ scraped_count < adv_options.max_urls

\* if "cloudflare" in current_url
IsChallengeAfterSchemeTest(url) ==
    StartsWithScheme(url) /\ HasToken(url, "cloudflare")

IsChallenge(url) == HasToken(url, "cloudflare")

\* if current_url in visited_urls or not current_url.startswith(...)
ShouldSkip(url, visited) == url \in visited \/ ~StartsWithScheme(url)

\* visited_urls.add(current_url)
AddVisitedForgets(visited, url) == visited

AddVisited(visited, url) == visited \cup {url}

\* all_cleaned_text += "\n\n" + cleaned_text if all_cleaned_text else cleaned_text
AppendTextSkipsEmpty(corpus, text) ==
    IF corpus # <<>> /\ text # <<>> THEN corpus \o <<"\n", "\n">> \o text
    ELSE corpus \o text

AppendText(corpus, text) ==
    IF corpus # <<>> THEN corpus \o <<"\n", "\n">> \o text ELSE text

\* for url in new_urls: if url not in visited_urls and url not in
\* urls_to_scrape: urls_to_scrape.append(url)
RECURSIVE EnqueueNoQueueTest(_, _, _)
EnqueueNoQueueTest(queue, visited, new_urls) ==
    IF new_urls = <<>> THEN queue
    ELSE EnqueueNoQueueTest(
             IF Head(new_urls) \notin visited
                THEN Append(queue, Head(new_urls)) ELSE queue,
             visited, Tail(new_urls))

RECURSIVE EnqueueLoop(_, _, _)
EnqueueLoop(queue, visited, new_urls) ==
    IF new_urls = <<>> THEN queue
    ELSE EnqueueLoop(
             IF Head(new_urls) \notin visited /\ Head(new_urls) \notin Range(queue)
                THEN Append(queue, Head(new_urls)) ELSE queue,
             visited, Tail(new_urls))

Enqueue(queue, visited, new_urls) == EnqueueLoop(queue, visited, new_urls)

\* The locals of Multi_scrape, which the iterations leave alone at its exit.
LocalsKept ==
    UNCHANGED <<adv_options, all_cleaned_text, visited_urls, urls_to_scrape,
                scraped_count, fetchLog>>

\* Multi_scrape_begin, had it started a new conversation with each crawl.
Multi_scrape_beginClearsHistory ==
    /\ chat_history' = <<>>
    /\ UNCHANGED <<parsed_result, req, pre, result, pureVars>>
    /\ pc = "idle"
    /\ \E start_url \in URLS, max_urls \in 1..MaxPages, urls_scrape \in BOOLEAN :
         /\ adv_options' = [max_urls |-> max_urls, urls_scrape |-> urls_scrape]
         /\ urls_to_scrape' = <<start_url>>
    /\ pc' = "run"
    /\ all_cleaned_text' = <<>>
    /\ visited_urls' = {}
    /\ scraped_count' = 0
    /\ retval' = Absent
    /\ reports' = <<>>
    /\ fetchLog' = <<>>
    /\ UNCHANGED <<dom_content, urls>>

\* Multi_scrape is entered: its locals are set up (lines 139-144).  The
\* session keys and the WebScraper fields keep what earlier crawls left.
Multi_scrape_begin ==
    /\ UNCHANGED <<engineVars, pureVars>>
    /\ pc = "idle"
    /\ \E start_url \in URLS, max_urls \in 1..MaxPages, urls_scrape \in BOOLEAN :
         /\ adv_options' = [max_urls |-> max_urls, urls_scrape |-> urls_scrape]
         /\ urls_to_scrape' = <<start_url>>
    /\ pc' = "run"
    /\ all_cleaned_text' = <<>>
    /\ visited_urls' = {}
    /\ scraped_count' = 0
    /\ retval' = Absent
    /\ reports' = <<>>
    /\ fetchLog' = <<>>
    /\ UNCHANGED <<dom_content, urls>>

\* One iteration that pops a URL holding the challenge marker (150-152).
IterAbort ==
    /\ UNCHANGED <<engineVars, pureVars>>
    /\ pc = "run" /\ LoopCond
    /\ IsChallenge(Head(urls_to_scrape))
    /\ reports' = Append(reports, <<"warning", "cloudflare">>)
    /\ retval' = Some(all_cleaned_text)
    /\ pc' = "aborted"
    /\ urls_to_scrape' = Tail(urls_to_scrape)
    /\ UNCHANGED <<adv_options, all_cleaned_text, visited_urls, scraped_count,
                   fetchLog, dom_content, urls>>

\* One iteration that skips the popped URL (155-158).
IterSkipRequeues ==
    /\ UNCHANGED <<engineVars, pureVars>>
    /\ pc = "run" /\ LoopCond
    /\ ~IsChallenge(Head(urls_to_scrape))
    /\ ShouldSkip(Head(urls_to_scrape), visited_urls)
    /\ urls_to_scrape' = Append(Tail(urls_to_scrape), Head(urls_to_scrape))
    /\ UNCHANGED <<pc, adv_options, all_cleaned_text, visited_urls,
                   scraped_count, retval, dom_content, urls, reports,
                   fetchLog>>

IterSkip ==
    /\ UNCHANGED <<engineVars, pureVars>>
    /\ pc = "run" /\ LoopCond
    /\ ~IsChallenge(Head(urls_to_scrape))
    /\ ShouldSkip(Head(urls_to_scrape), visited_urls)
    /\ urls_to_scrape' = Tail(urls_to_scrape)
    /\ UNCHANGED <<pc, adv_options, all_cleaned_text, visited_urls,
                   scraped_count, retval, dom_content, urls, reports,
                   fetchLog>>

\* One iteration whose fetch fails: scrape() returns the exception object
\* (41-47), unpacking it at line 169 raises, and the handler at 207-208
\* reports the URL.  Nothing after line 169 has run.
IterFetchFailStops ==
    /\ UNCHANGED <<engineVars, pureVars>>
    /\ pc = "run" /\ LoopCond
    /\ ~IsChallenge(Head(urls_to_scrape))
    /\ ~ShouldSkip(Head(urls_to_scrape), visited_urls)
    /\ visited_urls' = AddVisited(visited_urls, Head(urls_to_scrape))
    /\ urls_to_scrape' = <<>>
    /\ fetchLog' = Append(fetchLog,
           [url |-> Head(urls_to_scrape), ok |-> FALSE, text |-> <<>>,
            links |-> {}])
    /\ reports' = Append(reports, <<"error", Head(urls_to_scrape)>>)
    /\ UNCHANGED <<pc, adv_options, all_cleaned_text, scraped_count, retval,
                   dom_content, urls>>

IterFetchFail ==
    /\ UNCHANGED <<engineVars, pureVars>>
    /\ pc = "run" /\ LoopCond
    /\ ~IsChallenge(Head(urls_to_scrape))
    /\ ~ShouldSkip(Head(urls_to_scrape), visited_urls)
    /\ visited_urls' = AddVisited(visited_urls, Head(urls_to_scrape))
    /\ urls_to_scrape' = Tail(urls_to_scrape)
    /\ fetchLog' = Append(fetchLog,
           [url |-> Head(urls_to_scrape), ok |-> FALSE, text |-> <<>>,
            links |-> {}])
    /\ reports' = Append(reports, <<"error", Head(urls_to_scrape)>>)
    /\ UNCHANGED <<pc, adv_options, all_cleaned_text, scraped_count, retval,
                   dom_content, urls>>

\* What scrape() returns for a page (scraper.py:49-78): the links are the
\* lines of the cleaned text that hold "http", so a page with links has text;
\* without <body> both are empty.
PageResults ==
    {p \in [cleaned_text : PageTexts, links : LinkSets] :
        p.links # {} => p.cleaned_text # <<>>}

\* One iteration whose fetch succeeds (160-205): scrape() returns the cleaned
\* text and the link set of the page; list(links) has some order.  (Image
\* extraction, lines 181-184, writes a session key of its own and is left out.)
IterFetchOkEnqueuesAtBudget ==
    /\ UNCHANGED <<engineVars, pureVars>>
    /\ pc = "run" /\ LoopCond
    /\ ~IsChallenge(Head(urls_to_scrape))
    /\ ~ShouldSkip(Head(urls_to_scrape), visited_urls)
    /\ \E page \in PageResults :
       \E new_urls \in Orderings(page.links) :
         LET current_url == Head(urls_to_scrape)
             cleaned_text == page.cleaned_text
             links == page.links
             visited == AddVisited(visited_urls, current_url)
             count == scraped_count + 1
         IN  /\ visited_urls' = visited
             /\ urls' = Some(links)
             /\ all_cleaned_text' = AppendText(all_cleaned_text, cleaned_text)
             /\ dom_content' = Some(AppendText(all_cleaned_text, cleaned_text))
             /\ scraped_count' = count
             /\ fetchLog' = Append(fetchLog,
                    [url |-> current_url, ok |-> TRUE, text |-> cleaned_text,
                     links |-> links])
             /\ urls_to_scrape' =
                    IF adv_options.urls_scrape /\ count <= adv_options.max_urls
                       THEN Enqueue(Tail(urls_to_scrape), visited, new_urls)
                       ELSE Tail(urls_to_scrape)
    /\ UNCHANGED <<pc, adv_options, retval, reports>>

IterFetchOkUnionsLinks ==
    /\ UNCHANGED <<engineVars, pureVars>>
    /\ pc = "run" /\ LoopCond
    /\ ~IsChallenge(Head(urls_to_scrape))
    /\ ~ShouldSkip(Head(urls_to_scrape), visited_urls)
    /\ \E page \in PageResults :
       \E new_urls \in Orderings(page.links) :
         LET current_url == Head(urls_to_scrape)
             cleaned_text == page.cleaned_text
             links == page.links
             visited == AddVisited(visited_urls, current_url)
             count == scraped_count + 1
         IN  /\ visited_urls' = visited
             /\ urls' = Some(links \cup (IF IsSet(urls) THEN Val(urls) ELSE {}))
             /\ all_cleaned_text' = AppendText(all_cleaned_text, cleaned_text)
             /\ dom_content' = Some(AppendText(all_cleaned_text, cleaned_text))
             /\ scraped_count' = count
             /\ fetchLog' = Append(fetchLog,
                    [url |-> current_url, ok |-> TRUE, text |-> cleaned_text,
                     links |-> links])
             /\ urls_to_scrape' =
                    IF adv_options.urls_scrape /\ count < adv_options.max_urls
                       THEN Enqueue(Tail(urls_to_scrape), visited, new_urls)
                       ELSE Tail(urls_to_scrape)
    /\ UNCHANGED <<pc, adv_options, retval, reports>>

IterFetchOk ==
    /\ UNCHANGED <<engineVars, pureVars>>
    /\ pc = "run" /\ LoopCond
    /\ ~IsChallenge(Head(urls_to_scrape))
    /\ ~ShouldSkip(Head(urls_to_scrape), visited_urls)
    /\ \E page \in PageResults :
       \E new_urls \in Orderings(page.links) :
         LET current_url == Head(urls_to_scrape)
             cleaned_text == page.cleaned_text
             links == page.links
             visited == AddVisited(visited_urls, current_url)
             count == scraped_count + 1
         IN  /\ visited_urls' = visited
             /\ urls' = Some(links)
             /\ all_cleaned_text' = AppendText(all_cleaned_text, cleaned_text)
             /\ dom_content' = Some(AppendText(all_cleaned_text, cleaned_text))
             /\ scraped_count' = count
             /\ fetchLog' = Append(fetchLog,
                    [url |-> current_url, ok |-> TRUE, text |-> cleaned_text,
                     links |-> links])
             /\ urls_to_scrape' =
                    IF adv_options.urls_scrape /\ count < adv_options.max_urls
                       THEN Enqueue(Tail(urls_to_scrape), visited, new_urls)
                       ELSE Tail(urls_to_scrape)
    /\ UNCHANGED <<pc, adv_options, retval, reports>>

\* The loop has ended (210-219): the final status, then the two WebScraper
\* fields (which nothing else reads, so they are not state here).  Reading
\* st.session_state.urls at line 219 raises when no crawl of the session has
\* set the key.
Multi_scrape_end ==
    /\ UNCHANGED <<engineVars, pureVars>>
    /\ pc = "run" /\ ~LoopCond
    /\ reports' = Append(reports,
           IF all_cleaned_text = <<>> THEN <<"warning", "no content">>
           ELSE <<"success", scraped_count>>)
    /\ IF ~IsSet(urls)
          THEN /\ pc' = "raised"
               /\ UNCHANGED retval
          ELSE /\ pc' = "done"
               /\ retval' = Some(None)
    /\ LocalsKept
    /\ UNCHANGED <<dom_content, urls>>

\* Control is back in handle_scraping_process (app.py:298), which drops the
\* return value; the locals of Multi_scrape are gone and the page is drawn
\* again.  Only the session keys are left.
Multi_scrape_return ==
    /\ UNCHANGED <<engineVars, pureVars>>
    /\ pc \in {"aborted", "done", "raised"}
    /\ pc' = "returned"
    /\ adv_options' = [max_urls |-> 1, urls_scrape |-> FALSE]
    /\ all_cleaned_text' = <<>>
    /\ visited_urls' = {}
    /\ urls_to_scrape' = <<>>
    /\ scraped_count' = 0
    /\ fetchLog' = <<>>
    /\ retval' = Absent
    /\ reports' = <<>>
    /\ UNCHANGED <<dom_content, urls>>

\* ------------------------------------------------- the extraction engine
\* The model identifiers of the selectbox (app.py:201-215), one of each
\* dialect; `"gemini" in self.model` is the presence of the token.
GeminiModel == <<"gemini", "-2.0-flash-lite">>
DeepSeekModel == <<"deepseek", "/deepseek-r1-zero:free">>
ModelIds == {GeminiModel, DeepSeekModel}

Descriptions == {<<"d">>}

\* What one model call does: it fails (Absent), or its streamed fragments
\* add up to a response text.
Responses == {<<" ">>, <<"r">>, <<"s", " ">>}
Outcomes == {Absent} \cup {Some(r) : r \in Responses}

\* the chunk lists handed to a direct call of the engine: the first chunks
\* of one text
AllChunks == <<<<"a">>, <<"b", "c">>, <<"e">>, <<"f">>>>
ChunkLists == {SubSeq(AllChunks, 1, n) : n \in 0..MaxChunks}

\* what the model calls of one engine call do: none is made after one failed
OutcomeSeqs(n) ==
    {outs \in [1..n -> Outcomes] :
        \A i, j \in 1..n : (i < j /\ ~IsSet(outs[i])) => ~IsSet(outs[j])}

\* {"role": role, "parts": [{"text": text}]}
GeminiTurn(role, text) == [role |-> role, parts |-> <<[text |-> text]>>]

\* {"role": role, "content": text}
DeepSeekTurn(role, text) == [role |-> role, content |-> text]

\* f"Text content: {chunk}\n\nDescription: {description}"
ChunkInput(chunk, description) ==
    <<"Text content: ">> \o chunk \o <<"\n", "\n", "Description: ">> \o description

\* "\n\n".join(chunks) + f"\n\nDescription: {description}"
FullInput(chunks, description) ==
    Join(<<"\n", "\n">>, chunks) \o <<"\n", "\n", "Description: ">> \o description

\* construct_prompt returns a string
construct_prompt(description) == <<"Extract ONLY data matching: ">> \o description

\* the system message of the description-only mode of nochunk_with_deepseek
system_message == [role |-> "system", content |-> <<"refer to yourself as ScrapeSmart">>]

\* What a call of the engine did.  kind: "pair" (a tuple was returned), "none"
\* (None was returned), "raised" (an exception left the call).  history: the
\* list the caller passed, as the call left it (it is appended to in place).
\* calls: the argument of every model call.  errors: the st.error calls.
\* before: the history as it was when the failed model call was prepared.
Outcome(kind, text, history, calls, errors, before) ==
    [kind |-> kind, text |-> text, history |-> history, calls |-> calls,
     errors |-> errors, before |-> before]

\* chunk_with_gemini, the loop of lines 87-103 and the return of line 105
RECURSIVE GeminiChunkLoop(_, _, _, _, _, _)
GeminiChunkLoop(chunks, description, outs, history, all_responses, calls) ==
    IF chunks = <<>>
    THEN Outcome("pair", Join(<<"\n">>, all_responses), history, calls, 0, Absent)
    ELSE
      LET full_input == ChunkInput(Head(chunks), description)
          sent == Append(history, GeminiTurn("user", full_input))
      IN  IF ~IsSet(Head(outs))
          THEN Outcome("pair", <<>>, sent, Append(calls, sent), 1, Some(history))
          ELSE
            LET full_response == Val(Head(outs))
                kept == Strip(full_response) # <<>>
            IN  GeminiChunkLoop(
                    Tail(chunks), description, Tail(outs),
                    IF kept THEN Append(sent, GeminiTurn("model", Strip(full_response)))
                    ELSE sent,
                    IF kept THEN Append(all_responses, Strip(full_response))
                    ELSE all_responses,
                    Append(calls, sent))

\* chunk_with_gemini: with no chunk, final_result is read unbound at line 105
\* and the handler of line 106 reports it.
chunk_with_gemini(chunks, description, outs, history) ==
    IF chunks = <<>>
    THEN Outcome("pair", <<>>, history, <<>>, 1, Absent)
    ELSE GeminiChunkLoop(chunks, description, outs, history, <<>>, <<>>)

\* chunk_with_deepseek, the loop of lines 133-165 and lines 167-170
RECURSIVE DeepSeekChunkLoopForgets(_, _, _, _, _, _)
DeepSeekChunkLoopForgets(chunks, description, outs, history, all_responses, calls) ==
    IF chunks = <<>>
    THEN Outcome("pair", Join(<<"\n">>, all_responses), history, calls, 0, Absent)
    ELSE
      LET full_input == ChunkInput(Head(chunks), description)
          current_messages ==
              <<construct_prompt(description)>> \o history
                  \o <<DeepSeekTurn("user", full_input)>>
      IN  IF ~IsSet(Head(outs))
          THEN Outcome("pair", <<>>, history, Append(calls, current_messages),
                       1, Some(history))
          ELSE
            LET full_response == Val(Head(outs))
                kept == Strip(full_response) # <<>>
            IN  DeepSeekChunkLoopForgets(
                    Tail(chunks), description, Tail(outs),
                    IF kept
                    THEN <<DeepSeekTurn("user", full_input),
                           DeepSeekTurn("assistant", Strip(full_response))>>
                    ELSE history,
                    IF kept THEN Append(all_responses, Strip(full_response))
                    ELSE all_responses,
                    Append(calls, current_messages))

RECURSIVE DeepSeekChunkLoop(_, _, _, _, _, _)
DeepSeekChunkLoop(chunks, description, outs, history, all_responses, calls) ==
    IF chunks = <<>>
    THEN Outcome("pair", Join(<<"\n">>, all_responses), history, calls, 0, Absent)
    ELSE
      LET full_input == ChunkInput(Head(chunks), description)
          current_messages ==
              <<construct_prompt(description)>> \o history
                  \o <<DeepSeekTurn("user", full_input)>>
      IN  IF ~IsSet(Head(outs))
          THEN Outcome("pair", <<>>, history, Append(calls, current_messages),
                       1, Some(history))
          ELSE
            LET full_response == Val(Head(outs))
                kept == Strip(full_response) # <<>>
            IN  DeepSeekChunkLoop(
                    Tail(chunks), description, Tail(outs),
                    IF kept
                    THEN history \o <<DeepSeekTurn("user", full_input),
                                      DeepSeekTurn("assistant", Strip(full_response))>>
                    ELSE history,
                    IF kept THEN Append(all_responses, Strip(full_response))
                    ELSE all_responses,
                    Append(calls, current_messages))

chunk_with_deepseek(chunks, description, outs, history) ==
    DeepSeekChunkLoop(chunks, description, outs, history, <<>>, <<>>)

\* nochunk_with_gemini; `out` is what its one model call does.  The
\* description-only call of lines 188-198 is outside the try.
nochunk_with_gemini(chunks, description, out, history) ==
    IF chunks = <<>>
    THEN IF ~IsSet(out)
         THEN Outcome("raised", <<>>, history, <<description>>, 0, Some(history))
         ELSE Outcome("pair", Val(out), history, <<description>>, 0, Absent)
    ELSE
      LET full_input == FullInput(chunks, description)
          sent == Append(history, GeminiTurn("user", full_input))
      IN  IF ~IsSet(out)
          THEN Outcome("pair", <<>>, sent, <<sent>>, 1, Some(history))
          ELSE
            LET full_response == Val(out)
            IN  Outcome("pair", Strip(full_response),
                    IF Strip(full_response) # <<>>
                    THEN Append(sent, GeminiTurn("model", Strip(full_response)))
                    ELSE sent,
                    <<sent>>, 0, Absent)

\* nochunk_with_deepseek; everything after the client is made is in the try.
nochunk_with_deepseekStoresChat(chunks, description, out, history) ==
    IF chunks = <<>>
    THEN LET messages == <<system_message, DeepSeekTurn("user", description)>>
         IN  IF ~IsSet(out)
             THEN Outcome("pair", <<>>, history, <<messages>>, 1, Some(history))
             ELSE Outcome("pair", Val(out),
                          history \o <<DeepSeekTurn("user", description),
                                       DeepSeekTurn("assistant", Val(out))>>,
                          <<messages>>, 0, Absent)
    ELSE
      LET full_input == FullInput(chunks, description)
          messages ==
              <<construct_prompt(description)>> \o history
                  \o <<DeepSeekTurn("user", full_input)>>
      IN  IF ~IsSet(out)
          THEN Outcome("pair", <<>>, history, <<messages>>, 1, Some(history))
          ELSE
            LET full_response == Val(out)
            IN  Outcome("pair", Strip(full_response),
                    IF Strip(full_response) # <<>>
                    THEN history \o <<DeepSeekTurn("user", full_input),
                                      DeepSeekTurn("assistant", Strip(full_response))>>
                    ELSE history,
                    <<messages>>, 0, Absent)

nochunk_with_deepseek(chunks, description, out, history) ==
    IF chunks = <<>>
    THEN LET messages == <<system_message, DeepSeekTurn("user", description)>>
         IN  IF ~IsSet(out)
             THEN Outcome("pair", <<>>, history, <<messages>>, 1, Some(history))
             ELSE Outcome("pair", Val(out), history, <<messages>>, 0, Absent)
    ELSE
      LET full_input == FullInput(chunks, description)
          messages ==
              <<construct_prompt(description)>> \o history
                  \o <<DeepSeekTurn("user", full_input)>>
      IN  IF ~IsSet(out)
          THEN Outcome("pair", <<>>, history, <<messages>>, 1, Some(history))
          ELSE
            LET full_response == Val(out)
            IN  Outcome("pair", Strip(full_response),
                    IF Strip(full_response) # <<>>
                    THEN history \o <<DeepSeekTurn("user", full_input),
                                      DeepSeekTurn("assistant", Strip(full_response))>>
                    ELSE history,
                    <<messages>>, 0, Absent)

\* process_with_chunking: self.chunk_with_gemini(self, chunks, description,
\* history) hands five arguments to a method of at most four, which raises
\* TypeError before the method runs; the call has no return statement.
process_with_chunking(model, chunks, description, outs, history) ==
    IF HasToken(model, "gemini") \/ HasToken(model, "deepseek")
    THEN Outcome("raised", <<>>, history, <<>>, 0, Absent)
    ELSE Outcome("none", <<>>, history, <<>>, 0, Absent)

\* process_with_nochunking
process_with_nochunking(model, chunks, description, out, history) ==
    IF HasToken(model, "gemini")
    THEN nochunk_with_gemini(chunks, description, out, history)
    ELSE IF HasToken(model, "deepseek")
    THEN nochunk_with_deepseek(chunks, description, out, history)
    ELSE Outcome("none", <<>>, history, <<>>, 0, Absent)

\* dom_content_length(content, max_length)
RECURSIVE dom_content_lengthSkipsOne(_, _)
dom_content_lengthSkipsOne(content, max_length) ==
    IF content = <<>> THEN <<>>
    ELSE IF Len(content) <= max_length THEN <<content>>
    ELSE <<SubSeq(content, 1, max_length)>>
             \o dom_content_lengthSkipsOne(
                    SubSeq(content, max_length + 2, Len(content)), max_length)

RECURSIVE dom_content_length(_, _)
dom_content_length(content, max_length) ==
    IF content = <<>> THEN <<>>
    ELSE IF Len(content) <= max_length THEN <<content>>
    ELSE <<SubSeq(content, 1, max_length)>>
             \o dom_content_length(
                    SubSeq(content, max_length + 1, Len(content)), max_length)

Request(fn, model, chunks, description, outs) ==
    [fn |-> fn, model |-> model, chunks |-> chunks,
     description |-> description, outs |-> outs]

NoRequest == Request("", <<>>, <<>>, <<>>, <<>>)
NoOutcome == Outcome("", <<>>, <<>>, <<>>, 0, Absent)

\* A direct call of a method of Model on the caller's history list.
Returned(request, outcome) ==
    /\ req' = request
    /\ pre' = chat_history
    /\ result' = outcome
    /\ chat_history' = outcome.history
    /\ UNCHANGED parsed_result
    /\ UNCHANGED <<crawlVars, pureVars>>

Call_chunk_with_gemini ==
    /\ Len(chat_history) <= MaxHist
    /\ \E chunks \in ChunkLists, description \in Descriptions :
       \E outs \in OutcomeSeqs(Len(chunks)) :
         Returned(Request("chunk_with_gemini", GeminiModel, chunks, description, outs),
                  chunk_with_gemini(chunks, description, outs, chat_history))

Call_chunk_with_deepseek ==
    /\ Len(chat_history) <= MaxHist
    /\ \E chunks \in ChunkLists, description \in Descriptions :
       \E outs \in OutcomeSeqs(Len(chunks)) :
         Returned(Request("chunk_with_deepseek", DeepSeekModel, chunks, description, outs),
                  chunk_with_deepseek(chunks, description, outs, chat_history))

Call_process_with_chunking ==
    /\ Len(chat_history) <= MaxHist
    /\ \E model \in ModelIds, chunks \in ChunkLists, description \in Descriptions :
         Returned(Request("process_with_chunking", model, chunks, description, <<>>),
                  process_with_chunking(model, chunks, description, <<>>, chat_history))

Call_process_with_nochunking ==
    /\ Len(chat_history) <= MaxHist
    /\ \E model \in ModelIds, chunks \in ChunkLists, description \in Descriptions,
          out \in Outcomes :
         Returned(Request("process_with_nochunking", model, chunks, description, <<out>>),
                  process_with_nochunking(model, chunks, description, out, chat_history))

\* process_extraction_request (app.py:431-489), with the model and the
\* chunking flag the page was drawn with.  It runs between crawls.
\* Lines 436-445, no website scraped yet: no history is passed, and no try
\* is around the call.
process_extraction_request_unscraped ==
    /\ pc = "returned"
    /\ Len(chat_history) <= MaxHist
    /\ ~IsSet(dom_content)
    /\ \E parse_description \in Descriptions, model \in ModelIds, out \in Outcomes :
         /\ req' = Request("process_with_nochunking", model, <<>>,
                           parse_description, <<out>>)
         /\ result' = process_with_nochunking(model, <<>>, parse_description,
                                              out, <<>>)
    /\ pre' = chat_history
    /\ UNCHANGED <<chat_history, parsed_result>>
    /\ UNCHANGED <<crawlVars, pureVars>>

\* Lines 448-450, no API key.
process_extraction_request_nokey ==
    /\ pc = "returned"
    /\ Len(chat_history) <= MaxHist
    /\ IsSet(dom_content)
    /\ req' = NoRequest
    /\ result' = NoOutcome
    /\ pre' = chat_history
    /\ UNCHANGED <<chat_history, parsed_result>>
    /\ UNCHANGED <<crawlVars, pureVars>>

\* Lines 452-489.  A call that returns no pair fails at the unpacking of
\* line 463 or 469, inside the try: nothing is stored, but what the call
\* appended to the list in place stays.
process_extraction_request ==
    /\ pc = "returned"
    /\ Len(chat_history) <= MaxHist
    /\ IsSet(dom_content)
    /\ \E parse_description \in Descriptions, model \in ModelIds,
          chunking \in BOOLEAN :
       \E out \in IF chunking THEN {Absent} ELSE Outcomes :
         LET chunks == dom_content_length(Val(dom_content), ChunkLen)
             fn == IF chunking THEN "process_with_chunking"
                   ELSE "process_with_nochunking"
             r == IF chunking
                  THEN process_with_chunking(model, chunks, parse_description,
                                             <<>>, chat_history)
                  ELSE process_with_nochunking(model, chunks, parse_description,
                                               out, chat_history)
         IN  /\ req' = Request(fn, model, chunks, parse_description,
                               IF chunking THEN <<>> ELSE <<out>>)
             /\ result' = r
             /\ pre' = chat_history
             /\ chat_history' = r.history
             /\ parsed_result' =
                    IF r.kind = "pair" THEN Some(r.text) ELSE parsed_result
    /\ UNCHANGED <<crawlVars, pureVars>>

\* ------------------------------------------------------ the pure methods
\* the texts handed to a direct call of dom_content_length
Contents == UNION {[1..n -> {"a", "b"}] : n \in 0..MaxText}

NoCall == [fn |-> ""]

SplitCalls ==
    {[fn |-> "dom_content_length", content |-> c, max_length |-> l] :
        c \in Contents, l \in 1..MaxLength}

\* `pattern in text`
Contains(text, pattern) ==
    \E i \in 1..(Len(text) - Len(pattern) + 1) :
        SubSeq(text, i, i + Len(pattern) - 1) = pattern

\* text.split(sep), sep one character
RECURSIVE Split(_, _)
Split(text, sep) ==
    IF ~Contains(text, <<sep>>) THEN <<text>>
    ELSE LET k == CHOOSE i \in 1..Len(text) :
                      text[i] = sep /\ \A j \in 1..(i - 1) : text[j] # sep
         IN  <<SubSeq(text, 1, k - 1)>> \o Split(SubSeq(text, k + 1, Len(text)), sep)

\* text.strip(c), c one character
RECURSIVE StripChar(_, _)
StripChar(text, c) ==
    IF text # <<>> /\ Head(text) = c THEN StripChar(Tail(text), c)
    ELSE IF text # <<>> /\ text[Len(text)] = c
    THEN StripChar(SubSeq(text, 1, Len(text) - 1), c)
    ELSE text

\* [h.strip() for h in line.strip("|").split("|")]
Cells(line) ==
    LET parts == Split(StripChar(line, "|"), "|")
    IN  [i \in 1..Len(parts) |-> Strip(parts[i])]

\* dict(zip(header, cols)): of two cells under one name the later one stays
DictZip(header, cols) ==
    [name \in Range(header) |->
        cols[CHOOSE i \in 1..Len(header) :
                 header[i] = name /\ \A j \in (i + 1)..Len(header) : header[j] # name]]

\* line.strip() and "|" in line and "---" not in line
IsHeaderLine(line) ==
    /\ Strip(line) # <<>>
    /\ Contains(line, <<"|">>)
    /\ ~Contains(line, <<"-", "-", "-">>)

\* the loop of lines 46-53 over lines[header_line + 2:]
RECURSIVE DataRows(_, _)
DataRows(header, lines) ==
    IF lines = <<>> THEN <<>>
    ELSE LET line == Head(lines)
             cols == Cells(line)
             rest == DataRows(header, Tail(lines))
         IN  IF Strip(line) = <<>> \/ ~Contains(line, <<"|">>) THEN rest
             ELSE IF Len(cols) = Len(header)
             THEN <<DictZip(header, cols)>> \o rest
             ELSE rest

\* Result_to_dataframe(table): the records of the DataFrame, in order; the
\* empty DataFrame is the empty sequence.  convert_dtypes (line 57) changes
\* the dtype of a column, not its cells, its rows or its name.
Result_to_dataframeReadsNextLine(table) ==
    IF table = <<>> \/ ~Contains(table, <<"|">>) THEN <<>>
    ELSE
      LET lines == Split(Strip(table), "\n")
          found == {i \in 1..Len(lines) : IsHeaderLine(lines[i])}
      IN  IF found = {} THEN <<>>
          ELSE
            LET header_line == CHOOSE i \in found : \A j \in found : i <= j
                header == Cells(lines[header_line])
            IN  DataRows(header, SubSeq(lines, header_line + 1, Len(lines)))

Result_to_dataframe(table) ==
    IF table = <<>> \/ ~Contains(table, <<"|">>) THEN <<>>
    ELSE
      LET lines == Split(Strip(table), "\n")
          found == {i \in 1..Len(lines) : IsHeaderLine(lines[i])}
      IN  IF found = {} THEN <<>>
          ELSE
            LET header_line == CHOOSE i \in found : \A j \in found : i <= j
                header == Cells(lines[header_line])
            IN  DataRows(header, SubSeq(lines, header_line + 2, Len(lines)))

\* the lines of the texts handed to Result_to_dataframe: headers (one with
\* a repeated name and outer pipes), separator rows, rows of two and of
\* three cells, a line without a pipe and a blank one
TableLines ==
    { <<"a", "|", "b">>,
      <<"|", " ", "a", " ", "|", "a", "|">>,
      <<"-", "-", "-", "|", "-", "-", "-">>,
      <<"-", "-", "|", "-", "-">>,
      <<"1", "|", "2">>,
      <<"3", "|", "4">>,
      <<"1", "|", "2", "|", "3">>,
      <<"x">>,
      <<" ">> }

Tables ==
    {Join(<<"\n">>, lines) : lines \in UNION {[1..n -> TableLines] : n \in 0..MaxLines}}

TableCalls == {[fn |-> "Result_to_dataframe", table |-> t] : t \in Tables}

\* DataProcessor.Result_to_dataframe is called and returns.
Call_Result_to_dataframeNoHeaderTest ==
    /\ fn_call.fn = "Result_to_dataframe" /\ ~IsSet(fn_value)
    /\ fn_value' =
          IF /\ Contains(fn_call.table, <<"|">>)
             /\ \A line \in Range(Split(Strip(fn_call.table), "\n")) : ~IsHeaderLine(line)
          THEN <<"raised", "TypeError">>
          ELSE Some(Result_to_dataframe(fn_call.table))
    /\ UNCHANGED <<fn_call, crawlVars, engineVars>>

Call_Result_to_dataframe ==
    /\ fn_call.fn = "Result_to_dataframe" /\ ~IsSet(fn_value)
    /\ fn_value' = Some(Result_to_dataframe(fn_call.table))
    /\ UNCHANGED <<fn_call, crawlVars, engineVars>>

\* WebScraper.dom_content_length is called and returns.
Call_dom_content_length ==
    /\ fn_call.fn = "dom_content_length" /\ ~IsSet(fn_value)
    /\ fn_value' = Some(dom_content_length(fn_call.content, fn_call.max_length))
    /\ UNCHANGED <<fn_call, crawlVars, engineVars>>

\* A session before its crawl: a new one, or one in which an earlier crawl
\* fetched one page and an extraction over it left two turns.
OldHistory ==
    <<GeminiTurn("user", FullInput(<<OldText>>, <<"d">>)),
      GeminiTurn("model", <<"r">>)>>

Init ==
    /\ pc = "idle"
    /\ adv_options = [max_urls |-> 1, urls_scrape |-> FALSE]
    /\ all_cleaned_text = <<>>
    /\ visited_urls = {}
    /\ urls_to_scrape = <<>>
    /\ scraped_count = 0
    /\ retval = Absent
    /\ \/ /\ dom_content = Absent /\ urls = Absent
          /\ chat_history = <<>> /\ parsed_result = Absent
       \/ /\ dom_content = Some(OldText) /\ urls = Some(OldLinks)
          /\ chat_history = OldHistory /\ parsed_result = Some(<<"r">>)
    /\ req = NoRequest
    /\ pre = <<>>
    /\ result = NoOutcome
    /\ reports = <<>>
    /\ fetchLog = <<>>
    /\ fn_call = NoCall
    /\ fn_value = Absent

Next ==
    \/ Multi_scrape_begin
    \/ IterAbort
    \/ IterSkip
    \/ IterFetchFail
    \/ IterFetchOk
    \/ Multi_scrape_end
    \/ Multi_scrape_return
    \/ process_extraction_request_unscraped
    \/ process_extraction_request_nokey
    \/ process_extraction_request

Spec == Init /\ [][Next]_vars

\* The crawler alone.  Multi_scrape is sequential code: once it is entered,
\* and every call of scrape() returns, its loop takes its next iteration or
\* ends.
NextCrawl ==
    \/ Multi_scrape_begin
    \/ IterAbort
    \/ IterSkip
    \/ IterFetchFail
    \/ IterFetchOk
    \/ Multi_scrape_end
    \/ Multi_scrape_return

Multi_scrape_step ==
    IterAbort \/ IterSkip \/ IterFetchFail \/ IterFetchOk \/ Multi_scrape_end

SpecCrawl == Init /\ [][NextCrawl]_vars /\ WF_vars(Multi_scrape_step)

\* One call of a pure method in a new session, over every argument.
InitPure ==
    /\ pc = "idle"
    /\ adv_options = [max_urls |-> 1, urls_scrape |-> FALSE]
    /\ all_cleaned_text = <<>>
    /\ visited_urls = {}
    /\ urls_to_scrape = <<>>
    /\ scraped_count = 0
    /\ retval = Absent
    /\ dom_content = Absent /\ urls = Absent
    /\ chat_history = <<>> /\ parsed_result = Absent
    /\ req = NoRequest
    /\ pre = <<>>
    /\ result = NoOutcome
    /\ reports = <<>>
    /\ fetchLog = <<>>
    /\ fn_call \in SplitCalls \cup TableCalls
    /\ fn_value = Absent

NextPure ==
    \/ Call_dom_content_length
    \/ Call_Result_to_dataframe

SpecPure == InitPure /\ [][NextPure]_vars

\* The methods of Model called one after another on one history list.
NextEngine ==
    \/ Call_chunk_with_gemini
    \/ Call_chunk_with_deepseek
    \/ Call_process_with_chunking
    \/ Call_process_with_nochunking

SpecEngine == Init /\ [][NextEngine]_vars

\* ------------------------------------------------------------ the claims
InCrawl == pc \in {"run", "aborted", "done", "raised"}

NoDuplicates(q) == \A i, j \in 1..Len(q) : i # j => q[i] # q[j]

\* the cleaned texts of the fetches that succeeded, in fetch order
RECURSIVE OkTexts(_)
OkTexts(log) ==
    IF log = <<>> THEN <<>>
    ELSE IF Head(log).ok THEN <<Head(log).text>> \o OkTexts(Tail(log))
    ELSE OkTexts(Tail(log))

\* "\n\n".join(texts)
JoinBlank(texts) == Join(<<"\n", "\n">>, texts)

LastFetch == fetchLog[Len(fetchLog)]

\* C1: in every state of a crawl the number of pages fetched with success is
\* at most max_pages, whatever the start URL, the follow_links setting and
\* the fetch outcomes.
C1_CountWithinBudget ==
    InCrawl => scraped_count <= adv_options.max_urls

\* the budget is used up while URLs are still queued
C1_Witness ==
    /\ pc = "run" /\ adv_options.urls_scrape
    /\ scraped_count = adv_options.max_urls /\ scraped_count >= 2
    /\ urls_to_scrape # <<>>

\* C2: a URL occurs at most once in the Frontier at any time, and a step of
\* the crawl appends (behind what was queued) only URLs that are neither
\* visited nor already queued.
C2_FrontierUnique ==
    /\ [](NoDuplicates(urls_to_scrape))
    /\ [][(pc = "run" /\ pc' = "run") =>
            LET k == Len(urls_to_scrape) - 1
                q == urls_to_scrape'
            IN  /\ Len(q) >= k
                /\ SubSeq(q, 1, k) = Tail(urls_to_scrape)
                /\ \A i \in (k + 1)..Len(q) :
                      /\ q[i] \notin visited_urls'
                      /\ q[i] \notin Range(SubSeq(q, 1, i - 1))]_vars

\* the second page links to a URL that the first page had queued, and one
\* copy of it is in the Frontier
C2_Witness ==
    /\ pc = "run" /\ scraped_count = 2 /\ Len(fetchLog) = 2
    /\ fetchLog[1].url = UX /\ fetchLog[2].url = UY
    /\ urls = Some({UZ, URel})
    /\ urls_to_scrape = <<UZ, URel>>

\* C3: within one crawl the VisitedSet only grows, and no URL is fetched
\* twice, whatever the pages link to.
C3_VisitedGrowsNoRefetch ==
    /\ [](\A i, j \in 1..Len(fetchLog) :
            i # j => fetchLog[i].url # fetchLog[j].url)
    /\ [][(pc = "run" /\ InCrawl') => visited_urls \subseteq visited_urls']_vars

\* a later page links back to the first page fetched, and the crawl goes on
C3_Witness ==
    /\ pc = "run" /\ Len(fetchLog) >= 2 /\ LastFetch.ok
    /\ IsSet(urls) /\ fetchLog[1].url \in Val(urls)
    /\ urls_to_scrape # <<>>

\* C4: when the URL that is popped holds the challenge marker, the crawl
\* stops at once: the step fetches nothing and returns the corpus of the
\* pages fetched before it, and nothing is fetched afterwards.
C4_AbortOnChallenge ==
    /\ [][(pc = "run" /\ urls_to_scrape # <<>>
            /\ scraped_count < adv_options.max_urls
            /\ HasToken(Head(urls_to_scrape), "cloudflare")) =>
              (/\ pc' = "aborted"
               /\ fetchLog' = fetchLog
               /\ retval' = Some(all_cleaned_text))]_vars
    /\ [][pc = "aborted" =>
              (pc' \in {"aborted", "returned"} /\ Len(fetchLog') <= Len(fetchLog))]_vars

\* an abort after a page was fetched, with URLs left in the Frontier
C4_Witness ==
    /\ pc = "aborted" /\ Len(fetchLog) >= 1
    /\ retval = Some(all_cleaned_text) /\ all_cleaned_text # <<>>
    /\ urls_to_scrape # <<>>

\* C5: a fetch that fails reports an error for its URL, leaves the Corpus
\* and pages-fetched as they were, enqueues nothing, and the crawl goes on
\* with the URLs that were queued.
C5_FetchFailureContinues ==
    [][(pc = "run" /\ Len(fetchLog') = Len(fetchLog) + 1
        /\ ~fetchLog'[Len(fetchLog')].ok) =>
          (/\ reports' = Append(reports, <<"error", Head(urls_to_scrape)>>)
           /\ all_cleaned_text' = all_cleaned_text
           /\ dom_content' = dom_content
           /\ scraped_count' = scraped_count
           /\ urls_to_scrape' = Tail(urls_to_scrape)
           /\ pc' = "run")]_vars

\* a fetch failed while URLs were queued, and a later fetch succeeded
C5_Witness ==
    /\ pc = "run" /\ Len(fetchLog) >= 3
    /\ fetchLog[1].ok /\ ~fetchLog[2].ok /\ fetchLog[3].ok
    /\ Len(reports) = 1

\* C6: the Corpus is the cleaned texts of the pages fetched with success, in
\* fetch order, with "\n\n" between every two consecutive texts, empty
\* texts included; once a page is fetched it is the Corpus of the session.
C6_CorpusIsJoin ==
    InCrawl =>
        /\ all_cleaned_text = JoinBlank(OkTexts(fetchLog))
        /\ scraped_count >= 1 => dom_content = Some(JoinBlank(OkTexts(fetchLog)))

\* three pages fetched, the second with an empty text
C6_Witness ==
    /\ InCrawl /\ scraped_count = 3
    /\ LET texts == OkTexts(fetchLog)
       IN  Len(texts) = 3 /\ texts[1] # <<>> /\ texts[2] = <<>> /\ texts[3] # <<>>
    /\ all_cleaned_text # <<>>

\* the model calls of the last engine call whose trimmed response is not empty
NonEmptyCount(outs) ==
    Cardinality({i \in 1..Len(outs) : IsSet(outs[i]) /\ Strip(Val(outs[i])) # <<>>})

NoCallFailed(outs) == \A i \in 1..Len(outs) : IsSet(outs[i])

\* C7: a chunked extraction in which no model call fails makes the history
\* longer by two turns for every chunk whose trimmed output is not empty and
\* by none for every chunk whose trimmed output is empty, in both dialects.
C7_ChunkedHistoryGrowth ==
    (req.fn \in {"chunk_with_gemini", "chunk_with_deepseek"}
     /\ NoCallFailed(req.outs)) =>
        Len(chat_history) = Len(pre) + 2 * NonEmptyCount(req.outs)

\* C8: an extraction call, chunked or not, in either dialect, returns a pair
\* (text, history), and the page stores both in the session.
C8_ExtractionReturnsPair ==
    (req.fn \in {"process_with_chunking", "process_with_nochunking"}
     /\ NoCallFailed(req.outs)) =>
        /\ result.kind = "pair"
        /\ IsSet(dom_content) =>
              (parsed_result = Some(result.text) /\ chat_history = result.history)

\* C9: no call of the engine raises to its caller.
C9_NeverRaises ==
    result.kind # "raised"

\* C10: after an extraction in which a model call failed, the history is the
\* one from before the failed call: its user turn is not left in it.
C10_FailureKeepsPriorHistory ==
    IsSet(result.before) => chat_history = Val(result.before)

\* the history list handed to the last call of process_with_nochunking: the
\* persisted one, or none (a new list) when no page was scraped
PassedHistory == IF IsSet(dom_content) THEN pre ELSE <<>>

\* C11: a non-chunked call with no content, in either dialect, leaves the
\* persisted ConversationHistory as it was, whatever the model answers, and
\* the history it returns is the one it was handed.
C11_NoContentKeepsHistory ==
    (req.fn = "process_with_nochunking" /\ req.chunks = <<>>) =>
        /\ chat_history = pre
        /\ result.kind = "pair" => result.history = PassedHistory

\* a description-only call in a session that has a history: the model
\* answered, and the history is the one from before
C11_Witness ==
    /\ pc = "returned"
    /\ req.fn = "process_with_nochunking" /\ req.chunks = <<>>
    /\ HasToken(req.model, "deepseek")
    /\ result.kind = "pair" /\ result.text # <<>> /\ result.errors = 0
    /\ pre # <<>> /\ chat_history = pre

\* C12: the persisted ConversationHistory alternates: the turns at odd
\* positions are user turns and those at even positions are model or
\* assistant turns, also after a call whose trimmed output was empty or
\* whose model call failed.
C12_HistoryAlternates ==
    \A i \in 1..Len(chat_history) :
        IF i % 2 = 1 THEN chat_history[i].role = "user"
        ELSE chat_history[i].role \in {"model", "assistant"}

IsPrefix(s, t) == Len(s) <= Len(t) /\ SubSeq(t, 1, Len(s)) = s

\* C13: the persisted ConversationHistory is append-only: every step leaves
\* the turns stored before it at their positions with their content, so its
\* length never decreases.
C13_HistoryAppendOnly ==
    [][IsPrefix(chat_history, chat_history')]_vars

\* a chunked call on a history that had turns appended two exchanges behind them
C13_Witness ==
    /\ req.fn = "chunk_with_deepseek" /\ Len(req.chunks) = 2
    /\ Len(pre) >= 2 /\ Len(chat_history) = Len(pre) + 4
    /\ IsPrefix(pre, chat_history)

\* C14: a non-chunked call with content in which the model call does not
\* fail invokes the model once and appends one user turn, and one assistant
\* turn behind it iff the trimmed response is not empty: the history grows
\* by 2 on a non-empty response and by 1 on an empty one, in both dialects.
C14_NoChunkHistoryGrowth ==
    (req.fn = "process_with_nochunking" /\ req.chunks # <<>>
     /\ NoCallFailed(req.outs)) =>
        /\ Len(result.calls) = 1
        /\ Len(chat_history) =
              Len(pre) + (IF NonEmptyCount(req.outs) = 1 THEN 2 ELSE 1)
        /\ IsPrefix(pre, chat_history)
        /\ chat_history[Len(pre) + 1].role = "user"

\* C15: in a crawl with max_pages = 1 that follows links, the start URL is
\* the only URL ever queued or fetched: the URL fetched is the one the crawl
\* was started with, and nothing the page links to is enqueued, whether or
\* not the fetch succeeds.
C15_SinglePageBudget ==
    /\ []((InCrawl /\ adv_options.max_urls = 1 /\ adv_options.urls_scrape) =>
            Len(urls_to_scrape) + Len(fetchLog) <= 1)
    /\ [][(pc = "run" /\ Len(fetchLog') > Len(fetchLog)) =>
            (/\ fetchLog'[Len(fetchLog')].url = Head(urls_to_scrape)
             /\ Len(fetchLog') = Len(fetchLog) + 1)]_vars

\* the only page of the budget is fetched and has links
C15_Witness ==
    /\ InCrawl /\ adv_options.max_urls = 1 /\ adv_options.urls_scrape
    /\ Len(fetchLog) = 1 /\ fetchLog[1].ok
    /\ IsSet(urls) /\ Cardinality(Val(urls)) = 2
    /\ urls_to_scrape = <<>>

\* the crawl started at X with max_pages = 2 and follow_links has fetched X,
\* and X links to Y and Z
AfterFetchOfX ==
    /\ pc = "run" /\ adv_options.max_urls = 2 /\ adv_options.urls_scrape
    /\ Len(fetchLog) = 1 /\ fetchLog[1].url = UX /\ fetchLog[1].ok
    /\ urls = Some({UY, UZ})

\* C16: in the crawl started at X with max_pages = 2 and follow_links, where
\* X links to {Y, Z} and the page fetched next links to {X, W}: after X the
\* Frontier is [Y, Z], the second page fetched is Y, the Frontier after it
\* is [Z] (W is not enqueued), and the Corpus is text(X), a blank line,
\* text(Y).
C16_EndToEndScenario ==
    /\ [](AfterFetchOfX => urls_to_scrape = <<UY, UZ>>)
    /\ [][(AfterFetchOfX /\ Len(fetchLog') = 2 /\ fetchLog'[2].ok
            /\ urls' = Some({UX, UW})) =>
              (/\ fetchLog'[2].url = UY
               /\ urls_to_scrape' = <<UZ>>
               /\ all_cleaned_text' =
                     fetchLog'[1].text \o <<"\n", "\n">> \o fetchLog'[2].text)]_vars

\* C17: a crawl in which every fetch returns comes to its end, and at its
\* end the Frontier is empty, or pages-fetched equals max_pages, or a URL
\* holding the challenge marker was popped.
C17_CrawlTerminates ==
    /\ (pc = "run") ~> (pc \in {"aborted", "done", "raised"})
    /\ [](pc \in {"aborted", "done", "raised"} =>
            \/ urls_to_scrape = <<>>
            \/ scraped_count = adv_options.max_urls
            \/ pc = "aborted" /\ reports[Len(reports)] = <<"warning", "cloudflare">>)

\* a crawl that ended on its budget with URLs left in the Frontier, after a
\* fetch failed
C17_Witness ==
    /\ pc = "done" /\ urls_to_scrape # <<>>
    /\ scraped_count = adv_options.max_urls
    /\ Len(fetchLog) > scraped_count
    /\ Cardinality(visited_urls) = Len(fetchLog)

\* "".join(chunks)
Concat(chunks) == Join(<<>>, chunks)

\* C18: for every text T and max_length L > 0 the chunks of
\* dom_content_length(T, L), concatenated in order, are T; every chunk but
\* the last has length L, and the last has a length from 1 to L when T is
\* not empty.
C18_SplitIsSlicing ==
    (fn_call.fn = "dom_content_length" /\ IsSet(fn_value)) =>
        LET T == fn_call.content
            L == fn_call.max_length
            chunks == Val(fn_value)
        IN  /\ Concat(chunks) = T
            /\ \A i \in 1..(Len(chunks) - 1) : Len(chunks[i]) = L
            /\ T # <<>> =>
                  /\ chunks # <<>>
                  /\ Len(chunks[Len(chunks)]) \in 1..L

\* a text cut into three chunks, the last one shorter
C18_Witness ==
    /\ fn_call.fn = "dom_content_length" /\ IsSet(fn_value)
    /\ fn_call.max_length = 2 /\ Len(fn_call.content) = 5
    /\ Len(Val(fn_value)) = 3 /\ Len(Val(fn_value)[3]) = 1

\* C19: a text shorter than max_length gives exactly one chunk, and the
\* empty text gives the single chunk "".
C19_ShortTextOneChunk ==
    (fn_call.fn = "dom_content_length" /\ IsSet(fn_value)
     /\ Len(fn_call.content) < fn_call.max_length) =>
        /\ Len(Val(fn_value)) = 1
        /\ fn_call.content = <<>> => Val(fn_value) = << <<>> >>

\* the lines of a text as Result_to_dataframe sees them, and its header line
TableLinesOf(table) == Split(Strip(table), "\n")

HeaderCellsOf(table) ==
    LET lines == TableLinesOf(table)
        first == CHOOSE i \in 1..Len(lines) :
                     IsHeaderLine(lines[i]) /\ \A j \in 1..(i - 1) : ~IsHeaderLine(lines[j])
    IN  Cells(lines[first])

\* C20: every record of the table Result_to_dataframe returns has as many
\* columns as the header line has cells, and all records have the same
\* columns.
C20_RecordsMatchHeader ==
    (fn_call.fn = "Result_to_dataframe" /\ IsSet(fn_value)) =>
        \A i \in 1..Len(Val(fn_value)) :
            /\ Cardinality(DOMAIN Val(fn_value)[i]) = Len(HeaderCellsOf(fn_call.table))
            /\ DOMAIN Val(fn_value)[i] = DOMAIN Val(fn_value)[1]

\* the text 'a|b', '--|--', '1|2', '3|4', one per line
ExampleTable ==
    Join(<<"\n">>, << <<"a", "|", "b">>, <<"-", "-", "|", "-", "-">>,
                      <<"1", "|", "2">>, <<"3", "|", "4">> >>)

\* the lines behind the header line and the line after it that are not
\* blank, hold a pipe and have as many cells as the header
RowLinesOf(table) ==
    LET lines == TableLinesOf(table)
        first == CHOOSE i \in 1..Len(lines) :
                     IsHeaderLine(lines[i]) /\ \A j \in 1..(i - 1) : ~IsHeaderLine(lines[j])
    IN  {i \in (first + 2)..Len(lines) :
            /\ Strip(lines[i]) # <<>>
            /\ Contains(lines[i], <<"|">>)
            /\ Len(Cells(lines[i])) = Len(Cells(lines[first]))}

\* C21: the header is the first line that is not blank, holds a pipe and
\* holds no "---"; the line after it is never read; every later line that
\* is not blank, holds a pipe and has the header's number of cells gives one
\* record, in the order of the lines, pairing the header's names with its
\* cells.  The example text gives the records {a:1, b:2}, {a:3, b:4}.
C21_TableFromLines ==
    (fn_call.fn = "Result_to_dataframe" /\ IsSet(fn_value)) =>
        LET table == fn_call.table
            rows == Val(fn_value)
            lines == TableLinesOf(table)
        IN  /\ table = ExampleTable =>
                  rows = << (<<"a">> :> <<"1">>) @@ (<<"b">> :> <<"2">>),
                            (<<"a">> :> <<"3">>) @@ (<<"b">> :> <<"4">>) >>
            /\ IF \E i \in 1..Len(lines) : IsHeaderLine(lines[i])
               THEN /\ Len(rows) = Cardinality(RowLinesOf(table))
                    /\ \A i \in RowLinesOf(table) :
                          rows[Cardinality({j \in RowLinesOf(table) : j <= i})] =
                              DictZip(HeaderCellsOf(table), Cells(lines[i]))
               ELSE rows = <<>>

\* a data row in the place of the separator, and behind it a row of three
\* cells, which is dropped, and a row of two, which is kept
C21_Witness ==
    /\ fn_call.fn = "Result_to_dataframe" /\ IsSet(fn_value)
    /\ TableLinesOf(fn_call.table) =
           << <<"a", "|", "b">>, <<"1", "|", "2">>,
              <<"1", "|", "2", "|", "3">>, <<"3", "|", "4">> >>
    /\ Val(fn_value) = << (<<"a">> :> <<"3">>) @@ (<<"b">> :> <<"4">>) >>

\* C22: Result_to_dataframe returns a table for every text: the empty table
\* for the empty text and for a text without a pipe, and for any other text
\* a table with no more records than the text has lines holding a pipe
\* behind its first one; what the call hands back is a table, never an
\* exception.
C22_TableNeverFails ==
    (fn_call.fn = "Result_to_dataframe" /\ IsSet(fn_value)) =>
        /\ fn_value = Some(Val(fn_value))
        /\ ~Contains(fn_call.table, <<"|">>) => Val(fn_value) = <<>>
        /\ LET lines == TableLinesOf(fn_call.table)
               piped == {i \in 1..Len(lines) : Contains(lines[i], <<"|">>)}
           IN  piped # {} => Len(Val(fn_value)) < Cardinality(piped)

\* a text with pipes in which no line can be the header, and the empty
\* table returned for it
C22_Witness ==
    /\ fn_call.fn = "Result_to_dataframe" /\ IsSet(fn_value)
    /\ Len(TableLinesOf(fn_call.table)) = 3
    /\ \A line \in Range(TableLinesOf(fn_call.table)) :
          Contains(line, <<"-", "-", "-">>) \/ ~Contains(line, <<"|">>)
    /\ Contains(fn_call.table, <<"|">>)
    /\ Val(fn_value) = <<>>

\* the last fetch of the log that succeeded
RECURSIVE LastOk(_)
LastOk(log) ==
    IF log[Len(log)].ok THEN log[Len(log)] ELSE LastOk(SubSeq(log, 1, Len(log) - 1))

\* C23: from the first successful fetch of a crawl to its end, the session
\* URL set is the link set of the last page fetched with success: every
\* successful fetch overwrites it, and a failed fetch leaves it as it was.
C23_SessionUrlsAreLastPages ==
    /\ []((InCrawl /\ \E i \in 1..Len(fetchLog) : fetchLog[i].ok) =>
            urls = Some(LastOk(fetchLog).links))
    /\ [][(pc = "run" /\ Len(fetchLog') = Len(fetchLog) + 1
            /\ ~fetchLog'[Len(fetchLog')].ok) => urls' = urls]_vars

\* a crawl has ended after two pages with different link sets were fetched
\* and a fetch then failed
C23_Witness ==
    /\ pc = "done" /\ Len(fetchLog) = 3
    /\ fetchLog[1].ok /\ fetchLog[2].ok /\ ~fetchLog[3].ok
    /\ fetchLog[1].links # fetchLog[2].links
    /\ ~(fetchLog[1].links \subseteq fetchLog[2].links)
    /\ urls = Some(fetchLog[2].links)

\* C24: a crawl that has ended, through an empty Frontier, a used-up budget
\* or an abort, has reported its final status last: the number of pages
\* scraped when the Corpus is not empty, "no content" when it is.
C24_FinalStatusReported ==
    pc \in {"aborted", "done", "raised"} =>
        /\ reports # <<>>
        /\ LET last == reports[Len(reports)]
           IN  IF all_cleaned_text = <<>>
               THEN last = <<"warning", "no content">>
               ELSE last[1] = "success" /\ last[2] = scraped_count

\* C25: a popped URL that is in the VisitedSet or does not start with
\* http:// or https:// is skipped, whatever else it holds: nothing is
\* fetched, pages-fetched stays, and the crawl goes on with the rest of the
\* Frontier instead of aborting.
C25_SkipBeforeAbort ==
    [][(pc = "run" /\ urls_to_scrape # <<>>
        /\ scraped_count < adv_options.max_urls
        /\ (Head(urls_to_scrape) \in visited_urls
            \/ ~StartsWithScheme(Head(urls_to_scrape)))) =>
          (/\ pc' = "run"
           /\ fetchLog' = fetchLog
           /\ scraped_count' = scraped_count
           /\ urls_to_scrape' = Tail(urls_to_scrape))]_vars

\* a turn of the dialect of the chunked method `fn`
TurnOf(fn, role, text) ==
    IF fn = "chunk_with_gemini"
    THEN GeminiTurn(IF role = "assistant" THEN "model" ELSE role, text)
    ELSE DeepSeekTurn(role, text)

\* the turns of the chunks 1..n: each chunk's user turn, with its assistant
\* turn behind it when its trimmed output is not empty
RECURSIVE TurnsOfChunks(_, _, _, _, _)
TurnsOfChunks(fn, chunks, description, outs, n) ==
    IF n = 0 THEN <<>>
    ELSE TurnsOfChunks(fn, chunks, description, outs, n - 1)
           \o <<TurnOf(fn, "user", ChunkInput(chunks[n], description))>>
           \o (IF Strip(Val(outs[n])) # <<>>
               THEN <<TurnOf(fn, "assistant", Strip(Val(outs[n])))>>
               ELSE <<>>)

\* the history part of a message list: all of it, or, for the {role,
\* content} dialect, what is behind the system prompt
HistoryPart(fn, messages) ==
    IF fn = "chunk_with_gemini" THEN messages ELSE Tail(messages)

\* C26: in a chunked extraction the message list sent for chunk i is the
\* history from before the call, then the turns of the chunks before i (the
\* user turn, and the assistant turn when the output was not empty), then
\* the user turn of chunk i, in both dialects.
C26_ChunkCallSeesWholeHistory ==
    req.fn \in {"chunk_with_gemini", "chunk_with_deepseek"} =>
        \A i \in 1..Len(result.calls) :
            HistoryPart(req.fn, result.calls[i]) =
                pre \o TurnsOfChunks(req.fn, req.chunks, req.description,
                                     req.outs, i - 1)
                    \o <<TurnOf(req.fn, "user",
                                ChunkInput(req.chunks[i], req.description))>>

\* the trimmed responses, in order, of those of the first n model calls
\* whose trimmed response is not empty
RECURSIVE KeptResponses(_, _)
KeptResponses(outs, n) ==
    IF n = 0 THEN <<>>
    ELSE KeptResponses(outs, n - 1)
           \o (IF Strip(Val(outs[n])) # <<>> THEN <<Strip(Val(outs[n]))>> ELSE <<>>)

\* C27: a chunked extraction in which no model call fails returns, as the
\* combined text, the trimmed responses that are not empty, in chunk order,
\* joined by "\n" (the empty text when there is none), and reports no
\* error, also for an empty chunk sequence.
C27_CombinedTextIsJoin ==
    (req.fn \in {"chunk_with_gemini", "chunk_with_deepseek"}
     /\ NoCallFailed(req.outs)) =>
        /\ result.kind = "pair"
        /\ result.text = Join(<<"\n">>, KeptResponses(req.outs, Len(req.outs)))
        /\ result.errors = 0

\* the first model call of the last engine call that failed
FirstFailed(outs) ==
    CHOOSE i \in 1..Len(outs) :
        ~IsSet(outs[i]) /\ \A j \in 1..(i - 1) : IsSet(outs[j])

\* C28: a chunked extraction in which the model call of chunk i fails
\* returns the partial result of the chunks before i: their trimmed
\* responses that are not empty, joined by "\n".
C28_PartialResultOnFailure ==
    (req.fn \in {"chunk_with_gemini", "chunk_with_deepseek"}
     /\ ~NoCallFailed(req.outs)) =>
        /\ result.kind = "pair"
        /\ result.text =
              Join(<<"\n">>, KeptResponses(req.outs, FirstFailed(req.outs) - 1))

\* the turn has the encoding of the dialect of `model`: {role, parts} with
\* the roles user and model, or {role, content} with user and assistant
InDialect(turn, model) ==
    IF HasToken(model, "gemini")
    THEN DOMAIN turn = {"role", "parts"} /\ turn.role \in {"user", "model"}
    ELSE DOMAIN turn = {"role", "content"} /\ turn.role \in {"user", "assistant"}

\* C29: with the model changing between the extraction calls of a session,
\* every turn of the history handed to a model call has the encoding of that
\* call's dialect, and the persisted history never holds turns of both
\* encodings.
C29_HistoryKeepsOneDialect ==
    /\ \A i, j \in 1..Len(chat_history) :
          DOMAIN chat_history[i] = DOMAIN chat_history[j]
    /\ (req.fn = "process_with_nochunking" /\ req.chunks # <<>>) =>
          \A i \in 1..Len(pre) : InDialect(pre[i], req.model)

\* C30: every message list of the {role, content} dialect begins with a
\* message of the role system that holds the system instruction, and no
\* system turn is stored in the persisted history.
C30_SystemMessageFirst ==
    /\ \A i \in 1..Len(chat_history) : chat_history[i].role # "system"
    /\ (HasToken(req.model, "deepseek") /\ result.kind = "pair") =>
          \A i \in 1..Len(result.calls) :
              \* with content the list is built from construct_prompt, which
              \* is a text; a text is not a message of any role
              /\ req.chunks # <<>> =>
                    result.calls[i][1] # construct_prompt(req.description)
              /\ result.calls[i][1].role = "system"

\* the text of the last message of the list handed to a model call
LastUserText(model, messages) ==
    LET last == messages[Len(messages)]
    IN  IF HasToken(model, "gemini") THEN last.parts[1].text ELSE last.content

\* C31: a non-chunked extraction over a Corpus puts the Corpus of the
\* session, character for character, and the description behind it into the
\* user turn it sends, whatever the length of the Corpus.
C31_UserTurnHoldsCorpus ==
    (pc = "returned" /\ IsSet(dom_content)
     /\ req.fn = "process_with_nochunking" /\ req.chunks # <<>>) =>
        LastUserText(req.model, result.calls[1]) =
            Val(dom_content) \o <<"\n", "\n", "Description: ">> \o req.description

\* C32: when a crawl has ended, by any path, the session Corpus and URL set
\* are what this crawl produced: the Corpus is the text this crawl gathered
\* (empty when it fetched nothing) and the URL set is the link set of a page
\* this crawl fetched; nothing of an earlier crawl of the session is left.
C32_SessionHoldsThisCrawl ==
    pc \in {"aborted", "done", "raised"} =>
        /\ IsSet(dom_content) => Val(dom_content) = all_cleaned_text
        /\ IsSet(urls) =>
              \E i \in 1..Len(fetchLog) :
                  fetchLog[i].ok /\ Val(urls) = fetchLog[i].links

\* C33: a crawl returns to its caller without raising whatever its fetches
\* do; in a session without earlier crawl, a crawl whose every fetch fails
\* reports that no content was scraped and ends normally.
C33_CrawlEndsNormally ==
    /\ pc # "raised"
    /\ (pc = "done" /\ all_cleaned_text = <<>>) =>
          reports[Len(reports)] = <<"warning", "no content">>

\* the history part of the list handed to the model call of a non-chunked
\* extraction with content: all but the new user turn, and, for the {role,
\* content} dialect, all but the system prompt before it
SentHistory(model, messages) ==
    IF HasToken(model, "gemini")
    THEN SubSeq(messages, 1, Len(messages) - 1)
    ELSE SubSeq(messages, 2, Len(messages) - 1)

\* C34: no step of a crawl changes the ConversationHistory and no
\* extraction changes the session Corpus or URL set; so the model call of an
\* extraction over the Corpus of a later crawl is handed the turns that
\* were in the history before that crawl.
C34_CrawlAndExtractionFrames ==
    /\ [][pc # "returned" => chat_history' = chat_history]_vars
    /\ [][pc = "returned" => (dom_content' = dom_content /\ urls' = urls)]_vars
    /\ []((pc = "returned" /\ IsSet(dom_content)
           /\ req.fn = "process_with_nochunking" /\ req.chunks # <<>>) =>
             /\ SentHistory(req.model, result.calls[1]) = pre
             /\ IsPrefix(pre, chat_history))

\* an extraction over the Corpus of a second crawl was handed the two turns
\* left by an extraction over the Corpus of the first
C34_Witness ==
    /\ pc = "returned"
    /\ req.fn = "process_with_nochunking" /\ req.chunks # <<>>
    /\ HasToken(req.model, "deepseek") /\ result.errors = 0
    /\ IsSet(dom_content) /\ dom_content # Some(OldText) /\ urls # Some(OldLinks)
    /\ pre = OldHistory
    /\ SentHistory(req.model, result.calls[1]) = OldHistory
    /\ Len(chat_history) = 4 /\ IsPrefix(OldHistory, chat_history)

====
